---- MODULE Spec2Model ----
(***************************************************************************)
(* Model of update-ai-tools (src/update-ai-tools.js): the version          *)
(* comparison, the error classifier, the retrying command executor, the    *)
(* install planner with its confirmation prompt, and the drivers of the    *)
(* 'all', 'check' and named-tool runs.                                     *)
(*                                                                         *)
(* JavaScript strings are sequences of one-character strings, so that      *)
(* trim, toLowerCase, split, includes and Number are computed, not         *)
(* assumed.  null is the one-element sequence Null.                        *)
(***************************************************************************)
EXTENDS Integers, Sequences, FiniteSets, TLC

VARIABLES
    fin,                \* input of the pure function under study
    fout,               \* its result
    argv,               \* process.argv[2], Null when absent
    arg,                \* process.argv[2] || "all"
    pc,                 \* position of main / installPackagesWithConfirmation / installPackages
    packageList,        \* parameter packageList (package identifiers)
    individual,         \* parameter individual
    idx,                \* index of the running for-loop
    env,                \* what the external queries answer for the tool being resolved
    installedPackages,  \* installPackagesWithConfirmation: installedPackages
    newPackages,        \* installPackagesWithConfirmation: newPackages
    upToDatePackages,   \* installPackagesWithConfirmation: upToDatePackages
    status,             \* per tool, the kind of status line printed for it
    lastLine,           \* the last status line printed, in full
    rawAnswer,          \* the line the operator typed at the prompt
    answer,             \* what askUser resolved to
    prompts,            \* number of prompts issued
    packagesToInstall,  \* installPackagesWithConfirmation: packagesToInstall
    rw,                 \* the frame of the running runWithRetry call
    bulk,               \* outcome of the bulk install
    executed,           \* install commands executed so far, as (kind, package) pairs
    attempted,          \* packages whose individual install was started, in order
    successCount,       \* installPackages: successCount
    failedPackages,     \* installPackages: failedPackages
    cacheErrorsFound,   \* installPackages: cacheErrorsFound
    report,             \* the final message of the run
    exitCode            \* exit status of the process

pureVars == <<fin, fout>>

runVars == <<argv, arg, pc, packageList, individual, idx, env, installedPackages,
             newPackages, upToDatePackages, status, lastLine, rawAnswer, answer,
             prompts, packagesToInstall, bulk, attempted, successCount,
             failedPackages, cacheErrorsFound, report, exitCode>>

vars == <<fin, fout, argv, arg, pc, packageList, individual, idx, env, installedPackages,
          newPackages, upToDatePackages, status, lastLine, rawAnswer, answer,
          prompts, packagesToInstall, rw, executed, bulk, attempted, successCount,
          failedPackages, cacheErrorsFound, report, exitCode>>

(***************************************************************************)
(* JavaScript values and string primitives                                 *)
(***************************************************************************)
Null == <<"null">>

\* JavaScript truthiness of a string-or-null value
Truthy(s) == s # Null /\ s # <<>>

\* a || b on string-or-null values
OrElse(a, b) == IF Truthy(a) THEN a ELSE b

IsWhite(c) == c \in {" ", "\n", "\t"}

RECURSIVE TrimStart(_)
TrimStart(s) ==
    IF s # <<>> /\ IsWhite(Head(s)) THEN TrimStart(Tail(s)) ELSE s

RECURSIVE TrimEnd(_)
TrimEnd(s) ==
    IF s # <<>> /\ IsWhite(s[Len(s)]) THEN TrimEnd(SubSeq(s, 1, Len(s) - 1)) ELSE s

\* String.prototype.trim
trim(s) == TrimEnd(TrimStart(s))

UpperLetters == <<"A","B","C","D","E","F","G","H","I","J","K","L","M",
                  "N","O","P","Q","R","S","T","U","V","W","X","Y","Z">>
LowerLetters == <<"a","b","c","d","e","f","g","h","i","j","k","l","m",
                  "n","o","p","q","r","s","t","u","v","w","x","y","z">>

LowerOf(c) ==
    IF \E i \in 1..Len(UpperLetters) : UpperLetters[i] = c
    THEN LowerLetters[CHOOSE i \in 1..Len(UpperLetters) : UpperLetters[i] = c]
    ELSE c

\* String.prototype.toLowerCase
toLowerCase(s) == [i \in 1..Len(s) |-> LowerOf(s[i])]

\* String.prototype.includes
includes(s, sub) ==
    \E i \in 1..(Len(s) - Len(sub) + 1) : SubSeq(s, i, i + Len(sub) - 1) = sub

\* String.prototype.split on a one-character separator
RECURSIVE split(_, _)
split(s, sep) ==
    IF \E i \in 1..Len(s) : s[i] = sep
    THEN LET i == CHOOSE k \in 1..Len(s) :
                      s[k] = sep /\ \A j \in 1..(k - 1) : s[j] # sep
         IN  <<SubSeq(s, 1, i - 1)>> \o split(SubSeq(s, i + 1, Len(s)), sep)
    ELSE <<s>>

DigitChars == <<"0","1","2","3","4","5","6","7","8","9">>

IsDigit(c) == \E d \in 1..Len(DigitChars) : DigitChars[d] = c

DigitVal(c) == (CHOOSE d \in 1..Len(DigitChars) : DigitChars[d] = c) - 1

RECURSIVE DecimalValue(_)
DecimalValue(s) ==
    IF s = <<>> THEN 0
    ELSE DecimalValue(SubSeq(s, 1, Len(s) - 1)) * 10 + DigitVal(s[Len(s)])

\* Number(string) on strings of digits, letters and dots: the empty string is 0,
\* a string of decimal digits is its value, anything else is NaN.
Number(s) ==
    IF \A i \in 1..Len(s) : IsDigit(s[i])
    THEN [nan |-> FALSE, val |-> DecimalValue(s)]
    ELSE [nan |-> TRUE, val |-> 0]

\* parts[i] || 0 : undefined (index past the end), NaN and 0 all give 0
PartOrZero(parts, i) ==
    IF i > Len(parts) \/ parts[i].nan THEN 0 ELSE parts[i].val

Max(a, b) == IF a >= b THEN a ELSE b

(***************************************************************************)
(* compareVersions (lines 60-74).  The result is false or a number; num is *)
(* the value the result has in a numeric comparison (false < 0 is 0 < 0).  *)
(***************************************************************************)
Min(a, b) == IF a <= b THEN a ELSE b

\* the loop running to the shorter length only
RECURSIVE CompareFromShorter(_, _, _)
CompareFromShorter(parts1, parts2, i) ==
    IF i > Min(Len(parts1), Len(parts2)) THEN 0
    ELSE LET part1 == PartOrZero(parts1, i)
             part2 == PartOrZero(parts2, i)
         IN  IF part1 < part2 THEN -1
             ELSE IF part1 > part2 THEN 1
             ELSE CompareFromShorter(parts1, parts2, i + 1)

RECURSIVE CompareFrom(_, _, _)
CompareFrom(parts1, parts2, i) ==
    IF i > Max(Len(parts1), Len(parts2)) THEN 0
    ELSE LET part1 == PartOrZero(parts1, i)
             part2 == PartOrZero(parts2, i)
         IN  IF part1 < part2 THEN -1
             ELSE IF part1 > part2 THEN 1
             ELSE CompareFrom(parts1, parts2, i + 1)

MapNumber(strs) == [i \in 1..Len(strs) |-> Number(strs[i])]

compareVersions(v1, v2) ==
    IF ~Truthy(v1) \/ ~Truthy(v2) THEN [isFalse |-> TRUE, num |-> 0]
    ELSE [isFalse |-> FALSE,
          num |-> CompareFrom(MapNumber(split(v1, ".")), MapNumber(split(v2, ".")), 1)]

(***************************************************************************)
(* Error classifier (lines 132-152).  The argument is error.toString().    *)
(***************************************************************************)
ENOENT       == <<"E","N","O","E","N","T">>
ENOTEMPTY    == <<"E","N","O","T","E","M","P","T","Y">>
CACACHE      == <<"_","c","a","c","a","c","h","e">>
GITCLONE     == <<"g","i","t","-","c","l","o","n","e">>
PACKAGEJSON  == <<"p","a","c","k","a","g","e",".","j","s","o","n">>
TMP          == <<"t","m","p">>
ENOTFOUND    == <<"E","N","O","T","F","O","U","N","D">>
ECONNRESET   == <<"E","C","O","N","N","R","E","S","E","T">>
ETIMEDOUT    == <<"E","T","I","M","E","D","O","U","T">>
NETWORK      == <<"n","e","t","w","o","r","k">>

isCacheError(errorString) ==
    \/ includes(errorString, ENOENT)
    \/ includes(errorString, ENOTEMPTY)
    \/ includes(errorString, CACACHE)
    \/ includes(errorString, GITCLONE)
    \/ (includes(errorString, PACKAGEJSON) /\ includes(errorString, TMP))

isNetworkError(errorString) ==
    \/ includes(errorString, ENOTFOUND)
    \/ includes(errorString, ECONNRESET)
    \/ includes(errorString, ETIMEDOUT)
    \/ includes(errorString, NETWORK)

\* the two tests in the other order
getErrorTypeNetworkFirst(errorString) ==
    IF isNetworkError(errorString) THEN "network"
    ELSE IF isCacheError(errorString) THEN "cache"
    ELSE "unknown"

getErrorType(errorString) ==
    IF isCacheError(errorString) THEN "cache"
    ELSE IF isNetworkError(errorString) THEN "network"
    ELSE "unknown"

(***************************************************************************)
(* The registry (lines 5-19).  The model manages the first NumTools        *)
(* entries of the table.                                                   *)
(***************************************************************************)
NumTools == 2

AllKeys == <<"claude", "gemini", "copilot", "codex", "kilocode">>

\* Object.keys(packages), Object.keys(binaries)
Keys == SubSeq(AllKeys, 1, NumTools)

KeySet == {Keys[i] : i \in 1..Len(Keys)}

packages ==
    [claude   |-> "@anthropic-ai/claude-code",
     gemini   |-> "@google/gemini-cli",
     copilot  |-> "@github/copilot",
     codex    |-> "@openai/codex",
     kilocode |-> "@kilocode/cli"]

binaries ==
    [claude   |-> "claude",
     gemini   |-> "gemini",
     copilot  |-> "copilot",
     codex    |-> "codex",
     kilocode |-> "kilocode"]

\* Object.values(packages)
PackageValues == [i \in 1..Len(Keys) |-> packages[Keys[i]]]

PackageSet == {PackageValues[i] : i \in 1..Len(Keys)}

Undefined == "undefined"

\* Property names every object inherits from Object.prototype (constructor,
\* toString, valueOf, hasOwnProperty, ...); the model takes the first.
InheritedKeys == {"constructor"}

\* String(Object), what `${pkg}` gives for the inherited constructor
ObjectFunction == "function Object() { [native code] }"

\* packages[key], a property lookup: own entries, then the prototype's
PackageAt(key) ==
    IF key \in KeySet THEN packages[key]
    ELSE IF key \in InheritedKeys THEN ObjectFunction
    ELSE Undefined

\* Object.keys(packages).find((key) => packages[key] === pkg)
NameOf(pkg) ==
    IF \E i \in 1..Len(Keys) : packages[Keys[i]] = pkg
    THEN Keys[CHOOSE i \in 1..Len(Keys) :
                  packages[Keys[i]] = pkg /\ \A j \in 1..(i - 1) : packages[Keys[j]] # pkg]
    ELSE Undefined

\* binaries[nameKey]
BinaryAt(nameKey) == IF nameKey \in KeySet THEN binaries[nameKey] ELSE Undefined

\* Object.keys(packages).find(...) || pkg  (line 317)
DisplayNameOf(pkg) == IF NameOf(pkg) = Undefined THEN pkg ELSE NameOf(pkg)

Range(seq) == {seq[i] : i \in 1..Len(seq)}

(***************************************************************************)
(* What the external queries answer for one tool:                          *)
(*   probe : `<binary> --version`      exit status and standard output     *)
(*   list  : `npm list -g <pkg> --json` exit status and parsed output      *)
(*   view  : `npm view <pkg> version`   exit status and standard output    *)
(***************************************************************************)
V12    == <<"1",".","2">>
V120   == <<"1",".","2",".","0">>
V1100  == <<"1",".","1","0",".","0">>
V1a    == <<"1",".","a">>

ProbeResults ==
    { [ok |-> FALSE, out |-> <<>>],
      [ok |-> TRUE,  out |-> <<>>],
      [ok |-> TRUE,  out |-> V120 \o <<"\n">>],
      [ok |-> TRUE,  out |-> V1100 \o <<"\n","m","o","r","e","\n">>] }

ListResults ==
    { [kind |-> "fail",      dep |-> FALSE, version |-> Null],
      [kind |-> "malformed", dep |-> FALSE, version |-> Null],
      [kind |-> "json",      dep |-> FALSE, version |-> Null],
      [kind |-> "json",      dep |-> TRUE,  version |-> Null] }
    \cup { [kind |-> "json", dep |-> TRUE, version |-> v] : v \in {V12, V120, V1a} }

ViewResults ==
    { [ok |-> FALSE, out |-> <<>>],
      [ok |-> TRUE,  out |-> <<"\n">>] }
    \cup { [ok |-> TRUE, out |-> v \o <<"\n">>] : v \in {V120, V1100, V1a} }

ToolEnvs == [probe : ProbeResults, list : ListResults, view : ViewResults]

NoEnv == [probe |-> [ok |-> FALSE, out |-> Null],
          list  |-> [kind |-> "none", dep |-> FALSE, version |-> Null],
          view  |-> [ok |-> FALSE, out |-> Null]]

(***************************************************************************)
(* Version resolver (lines 35-58, 76-114)                                  *)
(***************************************************************************)
getLocalPackageVersion(e) ==
    IF e.list.kind # "json" THEN Null          \* execSync or JSON.parse threw
    ELSE IF ~e.list.dep THEN Null              \* dependencies?.[packageName] undefined
    ELSE OrElse(e.list.version, Null)

getRemotePackageVersion(e) ==
    IF ~e.view.ok THEN Null ELSE trim(e.view.out)

\* the first line taken for every binary, not for copilot alone
getBinaryVersionFirstLine(binaryName, e) ==
    IF ~e.probe.ok THEN Null
    ELSE LET output == trim(e.probe.out)
         IN  split(output, "\n")[1]

getBinaryVersion(binaryName, e) ==
    IF ~e.probe.ok THEN Null
    ELSE LET output == trim(e.probe.out)
         IN  IF binaryName = "copilot" THEN split(output, "\n")[1] ELSE output

\* the probe of the binary (lines 95-103) left out: the listing alone decides
isPackageInstalledByListing(pkg, e) ==
    IF e.list.kind # "json" THEN FALSE
    ELSE e.list.dep

isPackageInstalled(pkg, e) ==
    IF BinaryAt(NameOf(pkg)) # Undefined /\ e.probe.ok THEN TRUE
    ELSE IF e.list.kind # "json" THEN FALSE
    ELSE e.list.dep

\* an installed tool with an undetermined version taken for up to date
StatusOfUnknownAsUpToDate(pkg, e) ==
    IF isPackageInstalled(pkg, e)
    THEN LET localVersion  == getLocalPackageVersion(e)
             remoteVersion == getRemotePackageVersion(e)
         IN  IF Truthy(localVersion) /\ Truthy(remoteVersion)
             THEN IF compareVersions(localVersion, remoteVersion).num < 0
                  THEN "update available"
                  ELSE "up to date"
             ELSE "up to date"
    ELSE "not installed"

(***************************************************************************)
(* Status classification of installPackagesWithConfirmation (lines         *)
(* 225-246): the kind of status line printed, which decides the bucket.    *)
(***************************************************************************)
StatusOf(pkg, e) ==
    IF isPackageInstalled(pkg, e)
    THEN LET localVersion  == getLocalPackageVersion(e)
             remoteVersion == getRemotePackageVersion(e)
         IN  IF Truthy(localVersion) /\ Truthy(remoteVersion)
             THEN IF compareVersions(localVersion, remoteVersion).num < 0
                  THEN "update available"
                  ELSE "up to date"
             ELSE "could not check"
    ELSE "not installed"

(***************************************************************************)
(* runWithRetry (lines 166-212), one frame: the loop variable i, the flag  *)
(* cacheCleared, the classification of the last caught error, and what the *)
(* call has executed so far: executions and failures of cmd, cache clears,  *)
(* the last command run, and the seconds slept since the last execution of *)
(* cmd.                                                                    *)
(***************************************************************************)
NoCmd == [kind |-> "none", pkgs |-> <<>>]

\* `npm install -g ${pkgs.join(" ")}`
InstallCmd(kind, pkgs) == [kind |-> kind, pkgs |-> pkgs]

IdleFrame ==
    [pc |-> "idle", cmd |-> NoCmd, retries |-> 0, i |-> 0, cacheCleared |-> FALSE,
     errorType |-> "none", result |-> FALSE, execs |-> 0, fails |-> 0, clears |-> 0,
     last |-> "none", wait |-> 0]

\* entry of runWithRetry(cmd, retries): let cacheCleared = false; i = 0
EnterRunWithRetry(cmd, retries) ==
    [IdleFrame EXCEPT !.pc = "try", !.cmd = cmd, !.retries = retries]

ErrPrefix == <<"E","r","r","o","r",":"," ">>

\* error.toString() of the errors execSync throws in the runs
ErrorTexts ==
    { ErrPrefix \o ENOTEMPTY,
      ErrPrefix \o ETIMEDOUT,
      ErrPrefix \o ETIMEDOUT \o <<" ">> \o CACACHE,
      ErrPrefix \o <<"e","x","i","t"," ","1">> }

\* the loop giving up one attempt early
IsLastAttemptEarly(i, retries) == i + 1 >= retries

\* line 177: i === retries
IsLastAttempt(i, retries) == i = retries

\* the flag cacheCleared not consulted
WantsCacheClearAgain(errorType, cacheCleared) == errorType = "cache"

\* line 195: errorType === "cache" && !cacheCleared
WantsCacheClear(errorType, cacheCleared) == errorType = "cache" /\ ~cacheCleared

\* execSync(cmd) has run once more, and returned
Succeeded(f) == [f EXCEPT !.execs = @ + 1, !.last = "cmd", !.wait = 0]

\* execSync(cmd) has run once more, and thrown
Failed(f) == [f EXCEPT !.execs = @ + 1, !.fails = @ + 1, !.last = "cmd", !.wait = 0]

RecordExec ==
    executed' = executed \cup
        {[kind |-> rw.cmd.kind, pkg |-> rw.cmd.pkgs[k]] : k \in 1..Len(rw.cmd.pkgs)}

\* lines 170-173: execSync(cmd) succeeds, return true
RWSucceed ==
    /\ rw.pc = "try"
    /\ rw' = [Succeeded(rw) EXCEPT !.pc = "ret", !.result = TRUE]
    /\ RecordExec
    /\ UNCHANGED <<pureVars, runVars>>

\* the cache handled before the test for the last attempt
RWFailClearBeforeLastTest ==
    /\ rw.pc = "try"
    /\ \E text \in ErrorTexts :
          LET errorType == getErrorType(text)
          IN  rw' = IF /\ IsLastAttempt(rw.i, rw.retries)
                       /\ ~WantsCacheClear(errorType, rw.cacheCleared)
                    THEN [Failed(rw) EXCEPT !.pc = "ret", !.result = FALSE,
                                            !.errorType = errorType]
                    ELSE [Failed(rw) EXCEPT !.pc = "caught", !.errorType = errorType]
    /\ RecordExec
    /\ UNCHANGED <<pureVars, runVars>>

\* lines 174-192: execSync(cmd) throws; on the last attempt return false
RWFail ==
    /\ rw.pc = "try"
    /\ \E text \in ErrorTexts :
          LET errorType == getErrorType(text)
          IN  rw' = IF IsLastAttempt(rw.i, rw.retries)
                    THEN [Failed(rw) EXCEPT !.pc = "ret", !.result = FALSE,
                                            !.errorType = errorType]
                    ELSE [Failed(rw) EXCEPT !.pc = "caught", !.errorType = errorType]
    /\ RecordExec
    /\ UNCHANGED <<pureVars, runVars>>

\* a failed cache clear taken as fatal: the call returns false
RWClearCacheOrAbort ==
    /\ rw.pc = "caught"
    /\ WantsCacheClear(rw.errorType, rw.cacheCleared)
    /\ \E cleared \in BOOLEAN :
          rw' = IF cleared
                THEN [rw EXCEPT !.cacheCleared = TRUE, !.clears = @ + 1,
                                !.last = "clear", !.i = @ + 1, !.pc = "try"]
                ELSE [rw EXCEPT !.clears = @ + 1, !.last = "clear",
                                !.pc = "ret", !.result = FALSE]
    /\ UNCHANGED <<pureVars, runVars, executed>>

\* lines 195-201 with clearNpmCache (lines 154-164): `npm cache clean --force`
\* succeeds (cacheCleared = true; continue) or throws (clearNpmCache returns
\* false, nothing else happens in this iteration); either way i++ follows.
RWClearCache ==
    /\ rw.pc = "caught"
    /\ WantsCacheClear(rw.errorType, rw.cacheCleared)
    /\ \E cleared \in BOOLEAN :
          rw' = [rw EXCEPT !.cacheCleared = cleared, !.clears = @ + 1,
                           !.last = "clear", !.i = @ + 1, !.pc = "try"]
    /\ UNCHANGED <<pureVars, runVars, executed>>

\* seconds of the `sleep 5` of line 204 and of the `sleep 2` of line 207
NetworkWait == 5

DefaultWait == 2

\* the network wait no longer than the default one
RWSleepNetworkShort ==
    /\ rw.pc = "caught"
    /\ ~WantsCacheClear(rw.errorType, rw.cacheCleared)
    /\ rw.errorType = "network"
    /\ rw' = [rw EXCEPT !.last = "sleep", !.wait = @ + DefaultWait,
                         !.i = @ + 1, !.pc = "try"]
    /\ UNCHANGED <<pureVars, runVars, executed>>

\* lines 202-204: execSync("sleep 5")
RWSleepNetwork ==
    /\ rw.pc = "caught"
    /\ ~WantsCacheClear(rw.errorType, rw.cacheCleared)
    /\ rw.errorType = "network"
    /\ rw' = [rw EXCEPT !.last = "sleep", !.wait = @ + NetworkWait,
                         !.i = @ + 1, !.pc = "try"]
    /\ UNCHANGED <<pureVars, runVars, executed>>

\* the wait not followed by i++: the same attempt number again
RWSleepSameAttempt ==
    /\ rw.pc = "caught"
    /\ ~WantsCacheClear(rw.errorType, rw.cacheCleared)
    /\ rw.errorType # "network"
    /\ rw' = [rw EXCEPT !.last = "sleep", !.wait = @ + DefaultWait, !.pc = "try"]
    /\ UNCHANGED <<pureVars, runVars, executed>>

\* lines 205-207: execSync("sleep 2")
RWSleep ==
    /\ rw.pc = "caught"
    /\ ~WantsCacheClear(rw.errorType, rw.cacheCleared)
    /\ rw.errorType # "network"
    /\ rw' = [rw EXCEPT !.last = "sleep", !.wait = @ + DefaultWait,
                         !.i = @ + 1, !.pc = "try"]
    /\ UNCHANGED <<pureVars, runVars, executed>>

runWithRetry == RWSucceed \/ RWFail \/ RWClearCache \/ RWSleepNetwork \/ RWSleep

(***************************************************************************)
(* Console output kept by the model: status lines and the final message.   *)
(***************************************************************************)
Unknown == <<"u","n","k","n","o","w","n">>

NoLine == [name |-> "", kind |-> "none", display |-> Null, latest |-> Null]

NoReport == [kind |-> "none", successCount |-> 0, total |-> 0,
             failed |-> <<>>, commands |-> <<>>, hint |-> "none"]

\* the status line of installPackagesWithConfirmation (lines 232, 235, 239, 244)
InstallLine(pkg, e) ==
    LET kind == StatusOf(pkg, e)
    IN  [name    |-> NameOf(pkg),
         kind    |-> kind,
         display |-> IF kind \in {"update available", "up to date"}
                     THEN getLocalPackageVersion(e) ELSE Null,
         latest  |-> IF kind = "update available" THEN getRemotePackageVersion(e)
                     ELSE IF kind = "not installed"
                          THEN OrElse(getRemotePackageVersion(e), Unknown)
                     ELSE Null]

\* the `|| "unknown"` of line 399 left out
CheckLineWithoutUnknown(name, e) ==
    LET binaryVersion  == getBinaryVersion(binaries[name], e)
        localVersion   == getLocalPackageVersion(e)
        displayVersion == OrElse(binaryVersion, localVersion)
        remoteVersion  == getRemotePackageVersion(e)
    IN  IF Truthy(displayVersion)
        THEN IF Truthy(localVersion) /\ Truthy(remoteVersion)
             THEN IF compareVersions(localVersion, remoteVersion).num < 0
                  THEN [name |-> name, kind |-> "update available",
                        display |-> displayVersion, latest |-> remoteVersion]
                  ELSE [name |-> name, kind |-> "up to date",
                        display |-> displayVersion, latest |-> Null]
             ELSE [name |-> name, kind |-> "unable to check",
                   display |-> displayVersion, latest |-> Null]
        ELSE [name |-> name, kind |-> "not installed", display |-> Null,
              latest |-> remoteVersion]

\* the status line of the 'check' loop (lines 378-400)
CheckLine(name, e) ==
    LET binaryVersion  == getBinaryVersion(binaries[name], e)
        localVersion   == getLocalPackageVersion(e)
        displayVersion == OrElse(binaryVersion, localVersion)
        remoteVersion  == getRemotePackageVersion(e)
    IN  IF Truthy(displayVersion)
        THEN IF Truthy(localVersion) /\ Truthy(remoteVersion)
             THEN IF compareVersions(localVersion, remoteVersion).num < 0
                  THEN [name |-> name, kind |-> "update available",
                        display |-> displayVersion, latest |-> remoteVersion]
                  ELSE [name |-> name, kind |-> "up to date",
                        display |-> displayVersion, latest |-> Null]
             ELSE [name |-> name, kind |-> "unable to check",
                   display |-> displayVersion, latest |-> Null]
        ELSE [name |-> name, kind |-> "not installed", display |-> Null,
              latest |-> OrElse(remoteVersion, Unknown)]

(***************************************************************************)
(* askUser (lines 21-33) and the decisions of the planner and installer    *)
(***************************************************************************)
RawAnswers ==
    { <<"y">>, <<" ","Y","E","S"," ">>, <<"y","e","s">>,
      <<"n">>, <<>>, <<"y","e","s","!">> }

\* resolve(answer.toLowerCase().trim())
askUser(raw) == trim(toLowerCase(raw))

\* any answer that starts with "y" taken as a yes
AffirmativeByFirstLetter(a) == a # <<>> /\ a[1] = "y"

\* the default of the (y/N) prompt taken as a yes
AffirmativeByDefault(a) == a = <<>> \/ a = <<"y">> \/ a = <<"y","e","s">>

\* line 275: the prompt is declined unless answer is "y" or "yes"
Affirmative(a) == a = <<"y">> \/ a = <<"y","e","s">>

\* every requested package handed on, whatever its status
PlanOfAllRequested(installed, new) == packageList

\* the new packages put first
PlanOfNewFirst(installed, new) == new \o installed

\* line 282: [...installedPackages, ...newPackages]
PlanOf(installed, new) == installed \o new

\* the length test left out
UseBulkWheneverNotIndividual(indiv, list) == ~indiv

\* line 301: !individual && packageList.length > 1
UseBulk(indiv, list) == ~indiv /\ Len(list) > 1

(***************************************************************************)
(* main (lines 359-419)                                                    *)
(***************************************************************************)
NoArg == ""      \* process.argv[2] absent (or empty): falsy

Args == {NoArg, "all", "check", "bogus"} \cup KeySet \cup InheritedKeys

installVars == <<bulk, attempted, successCount, failedPackages, cacheErrorsFound>>

bucketVars == <<installedPackages, newPackages, upToDatePackages>>

promptVars == <<rawAnswer, answer, prompts>>

NoInput == [fn |-> "none"]

NoOutput == [done |-> FALSE]

\* the state of a process that is not running (yet)
RunAtRest ==
    /\ packageList = <<>>
    /\ individual = FALSE
    /\ idx = 0
    /\ env = NoEnv
    /\ installedPackages = <<>>
    /\ newPackages = <<>>
    /\ upToDatePackages = <<>>
    /\ status = [k \in KeySet \cup {Undefined} |-> "none"]
    /\ lastLine = NoLine
    /\ rawAnswer = Null
    /\ answer = Null
    /\ prompts = 0
    /\ packagesToInstall = <<>>
    /\ executed = {}
    /\ bulk = "none"
    /\ attempted = <<>>
    /\ successCount = 0
    /\ failedPackages = <<>>
    /\ cacheErrorsFound = FALSE
    /\ report = NoReport
    /\ exitCode = -1

Init ==
    /\ fin = NoInput
    /\ fout = NoOutput
    /\ argv \in Args
    /\ arg = IF argv = NoArg THEN "all" ELSE argv
    /\ pc = "main"
    /\ rw = IdleFrame
    /\ RunAtRest

\* lines 371-373
MainAll ==
    /\ pc = "main"
    /\ arg = "all"
    /\ packageList' = PackageValues
    /\ individual' = FALSE
    /\ idx' = 1
    /\ pc' = "classify"
    /\ UNCHANGED <<pureVars, argv, arg, env, bucketVars, status, lastLine, promptVars,
                   packagesToInstall, rw, executed, installVars, report, exitCode>>

\* lines 374-378
MainCheck ==
    /\ pc = "main"
    /\ arg = "check"
    /\ idx' = 1
    /\ pc' = "check"
    /\ UNCHANGED <<pureVars, argv, arg, packageList, individual, env, bucketVars, status,
                   lastLine, promptVars, packagesToInstall, rw, executed, installVars,
                   report, exitCode>>

\* lines 402-404
MainTool ==
    /\ pc = "main"
    /\ arg \notin {"all", "check"}
    /\ PackageAt(arg) # Undefined
    /\ packageList' = <<PackageAt(arg)>>
    /\ individual' = TRUE
    /\ idx' = 1
    /\ pc' = "classify"
    /\ UNCHANGED <<pureVars, argv, arg, env, bucketVars, status, lastLine, promptVars,
                   packagesToInstall, rw, executed, installVars, report, exitCode>>

\* lines 405-416: usage text, process.exit(1)
MainUsage ==
    /\ pc = "main"
    /\ arg \notin {"all", "check"}
    /\ PackageAt(arg) = Undefined
    /\ report' = [NoReport EXCEPT !.kind = "usage"]
    /\ exitCode' = 1
    /\ pc' = "exited"
    /\ UNCHANGED <<pureVars, argv, arg, packageList, individual, idx, env, bucketVars,
                   status, lastLine, promptVars, packagesToInstall, rw, executed,
                   installVars>>

\* lines 378-401: one iteration of the 'check' loop
CheckTool ==
    /\ pc = "check"
    /\ idx <= Len(Keys)
    /\ \E e \in ToolEnvs :
          LET line == CheckLine(Keys[idx], e)
          IN  /\ env' = e
              /\ lastLine' = line
              /\ status' = [status EXCEPT ![Keys[idx]] = line.kind]
    /\ idx' = idx + 1
    /\ UNCHANGED <<pureVars, argv, arg, pc, packageList, individual, bucketVars,
                   promptVars, packagesToInstall, rw, executed, installVars, report,
                   exitCode>>

\* the 'check' loop is over
CheckDone ==
    /\ pc = "check"
    /\ idx > Len(Keys)
    /\ pc' = "done"
    /\ UNCHANGED <<pureVars, argv, arg, packageList, individual, idx, env, bucketVars,
                   status, lastLine, promptVars, packagesToInstall, rw, executed,
                   installVars, report, exitCode>>

\* main() resolved: the process ends with status 0
Exit ==
    /\ pc = "done"
    /\ exitCode' = 0
    /\ pc' = "exited"
    /\ UNCHANGED <<pureVars, argv, arg, packageList, individual, idx, env, bucketVars,
                   status, lastLine, promptVars, packagesToInstall, rw, executed,
                   installVars, report>>

(***************************************************************************)
(* installPackagesWithConfirmation (lines 214-298)                         *)
(***************************************************************************)
\* the lookups without their try/catch: a failed listing or registry query
\* rejects main(), the rejection is logged and the process ends
ClassifyOrRaise ==
    /\ pc = "classify"
    /\ idx <= Len(packageList)
    /\ \E e \in ToolEnvs :
          LET pkg  == packageList[idx]
              line == InstallLine(pkg, e)
              raised == e.list.kind # "json" \/ ~e.view.ok
          IN  /\ env' = e
              /\ lastLine' = IF raised THEN NoLine ELSE line
              /\ status' = IF raised THEN status
                           ELSE [status EXCEPT ![line.name] = line.kind]
              /\ installedPackages' =
                    IF ~raised /\ line.kind \in {"update available", "could not check"}
                    THEN Append(installedPackages, pkg) ELSE installedPackages
              /\ upToDatePackages' =
                    IF ~raised /\ line.kind = "up to date"
                    THEN Append(upToDatePackages, pkg) ELSE upToDatePackages
              /\ newPackages' =
                    IF ~raised /\ line.kind = "not installed"
                    THEN Append(newPackages, pkg) ELSE newPackages
              /\ pc' = IF raised THEN "done" ELSE pc
              /\ idx' = IF raised THEN idx ELSE idx + 1
    /\ UNCHANGED <<pureVars, argv, arg, packageList, individual, promptVars,
                   packagesToInstall, rw, executed, installVars, report, exitCode>>

\* lines 222-247: one iteration of the classification loop
Classify ==
    /\ pc = "classify"
    /\ idx <= Len(packageList)
    /\ \E e \in ToolEnvs :
          LET pkg  == packageList[idx]
              line == InstallLine(pkg, e)
          IN  /\ env' = e
              /\ lastLine' = line
              /\ status' = [status EXCEPT ![line.name] = line.kind]
              /\ installedPackages' =
                    IF line.kind \in {"update available", "could not check"}
                    THEN Append(installedPackages, pkg) ELSE installedPackages
              /\ upToDatePackages' =
                    IF line.kind = "up to date"
                    THEN Append(upToDatePackages, pkg) ELSE upToDatePackages
              /\ newPackages' =
                    IF line.kind = "not installed"
                    THEN Append(newPackages, pkg) ELSE newPackages
    /\ idx' = idx + 1
    /\ UNCHANGED <<pureVars, argv, arg, pc, packageList, individual, promptVars,
                   packagesToInstall, rw, executed, installVars, report, exitCode>>

\* the prompt issued whether or not there are new packages
ShowSummaryAlwaysAsks ==
    /\ pc = "classify"
    /\ idx > Len(packageList)
    /\ env' = NoEnv
    /\ lastLine' = NoLine
    /\ prompts' = prompts + 1
    /\ pc' = "awaiting"
    /\ UNCHANGED <<pureVars, argv, arg, packageList, individual, idx, bucketVars, status,
                   rawAnswer, answer, packagesToInstall, rw, executed, installVars,
                   report, exitCode>>

\* lines 249-273: the summary; with new packages the prompt is issued
ShowSummary ==
    /\ pc = "classify"
    /\ idx > Len(packageList)
    /\ env' = NoEnv
    /\ lastLine' = NoLine
    /\ IF newPackages # <<>>
       THEN prompts' = prompts + 1 /\ pc' = "awaiting"
       ELSE prompts' = prompts /\ pc' = "plan"
    /\ UNCHANGED <<pureVars, argv, arg, packageList, individual, idx, bucketVars, status,
                   rawAnswer, answer, packagesToInstall, rw, executed, installVars,
                   report, exitCode>>

\* lines 273-279: the operator's line arrives; a decline empties newPackages
Answer ==
    /\ pc = "awaiting"
    /\ \E raw \in RawAnswers :
          /\ rawAnswer' = raw
          /\ answer' = askUser(raw)
          /\ newPackages' = IF Affirmative(askUser(raw)) THEN newPackages ELSE <<>>
    /\ pc' = "plan"
    /\ UNCHANGED <<pureVars, argv, arg, packageList, individual, idx, env,
                   installedPackages, upToDatePackages, status, lastLine, prompts,
                   packagesToInstall, rw, executed, installVars, report, exitCode>>

\* lines 281-297: packagesToInstall; nothing to do, or installPackages is called
Plan ==
    /\ pc = "plan"
    /\ LET toInstall == PlanOf(installedPackages, newPackages)
       IN  /\ packagesToInstall' = toInstall
           /\ IF Len(toInstall) = 0
              THEN /\ report' = [NoReport EXCEPT !.kind =
                                    IF Len(upToDatePackages) > 0
                                    THEN "all up to date" ELSE "nothing to install"]
                   /\ pc' = "done"
              ELSE /\ report' = report
                   /\ pc' = "install"
    /\ UNCHANGED <<pureVars, argv, arg, packageList, individual, idx, env, bucketVars,
                   status, lastLine, promptVars, rw, executed, installVars, exitCode>>

(***************************************************************************)
(* installPackages (lines 300-357); its packageList is packagesToInstall   *)
(***************************************************************************)
\* lines 301-304 and 312-314: the bulk command is started, or the loop is
InstallStart ==
    /\ pc = "install"
    /\ IF UseBulk(individual, packagesToInstall)
       THEN /\ rw' = EnterRunWithRetry(InstallCmd("bulk", packagesToInstall), 1)
            /\ bulk' = "running"
            /\ pc' = "bulk"
            /\ idx' = idx
       ELSE /\ rw' = rw
            /\ bulk' = bulk
            /\ pc' = "loop"
            /\ idx' = 1
    /\ UNCHANGED <<pureVars, argv, arg, packageList, individual, env, bucketVars, status,
                   lastLine, promptVars, packagesToInstall, executed, attempted,
                   successCount, failedPackages, cacheErrorsFound, report, exitCode>>

\* lines 304-314: runWithRetry(bulkCmd, 1) returned
BulkReturn ==
    /\ pc = "bulk"
    /\ rw.pc = "ret"
    /\ rw' = IdleFrame
    /\ IF rw.result
       THEN /\ bulk' = "ok"
            /\ report' = [NoReport EXCEPT !.kind = "all installed"]
            /\ pc' = "done"
            /\ idx' = idx
       ELSE /\ bulk' = "failed"
            /\ report' = report
            /\ pc' = "loop"
            /\ idx' = 1
    /\ UNCHANGED <<pureVars, argv, arg, packageList, individual, env, bucketVars, status,
                   lastLine, promptVars, packagesToInstall, executed, attempted,
                   successCount, failedPackages, cacheErrorsFound, exitCode>>

\* the individual installs given one retry, as the bulk command is
LoopCallOneRetry ==
    /\ pc = "loop"
    /\ idx <= Len(packagesToInstall)
    /\ rw' = EnterRunWithRetry(InstallCmd("single", <<packagesToInstall[idx]>>), 1)
    /\ attempted' = Append(attempted, packagesToInstall[idx])
    /\ pc' = "installing"
    /\ UNCHANGED <<pureVars, argv, arg, packageList, individual, idx, env, bucketVars,
                   status, lastLine, promptVars, packagesToInstall, executed, bulk,
                   successCount, failedPackages, cacheErrorsFound, report, exitCode>>

\* lines 316-320: the next package's runWithRetry(`npm install -g ${pkg}`, 2) starts
LoopCall ==
    /\ pc = "loop"
    /\ idx <= Len(packagesToInstall)
    /\ rw' = EnterRunWithRetry(InstallCmd("single", <<packagesToInstall[idx]>>), 2)
    /\ attempted' = Append(attempted, packagesToInstall[idx])
    /\ pc' = "installing"
    /\ UNCHANGED <<pureVars, argv, arg, packageList, individual, idx, env, bucketVars,
                   status, lastLine, promptVars, packagesToInstall, executed, bulk,
                   successCount, failedPackages, cacheErrorsFound, report, exitCode>>

\* the loop left at the first failed install
LoopReturnStopAtFailure ==
    /\ pc = "installing"
    /\ rw.pc = "ret"
    /\ rw' = IdleFrame
    /\ LET pkg == packagesToInstall[idx]
       IN  IF rw.result
           THEN /\ successCount' = successCount + 1
                /\ idx' = idx + 1
                /\ UNCHANGED <<failedPackages, cacheErrorsFound>>
           ELSE /\ failedPackages' =
                       Append(failedPackages, [pkg |-> pkg, name |-> DisplayNameOf(pkg)])
                /\ cacheErrorsFound' = TRUE
                /\ idx' = Len(packagesToInstall) + 1
                /\ successCount' = successCount
    /\ pc' = "loop"
    /\ UNCHANGED <<pureVars, argv, arg, packageList, individual, env, bucketVars, status,
                   lastLine, promptVars, packagesToInstall, executed, bulk, attempted,
                   report, exitCode>>

\* lines 320-331: it returned
LoopReturn ==
    /\ pc = "installing"
    /\ rw.pc = "ret"
    /\ rw' = IdleFrame
    /\ LET pkg == packagesToInstall[idx]
       IN  IF rw.result
           THEN /\ successCount' = successCount + 1
                /\ UNCHANGED <<failedPackages, cacheErrorsFound>>
           ELSE /\ failedPackages' =
                       Append(failedPackages, [pkg |-> pkg, name |-> DisplayNameOf(pkg)])
                /\ cacheErrorsFound' = TRUE
                /\ successCount' = successCount
    /\ idx' = idx + 1
    /\ pc' = "loop"
    /\ UNCHANGED <<pureVars, argv, arg, packageList, individual, env, bucketVars, status,
                   lastLine, promptVars, packagesToInstall, executed, bulk, attempted,
                   report, exitCode>>

\* the summary without the list of failed packages (lines 340-345 left out)
SummaryWithoutFailedList ==
    /\ pc = "loop"
    /\ idx > Len(packagesToInstall)
    /\ report' =
          [kind         |-> "summary",
           successCount |-> successCount,
           total        |-> Len(packagesToInstall),
           failed       |-> <<>>,
           commands     |-> <<>>,
           hint         |-> IF Len(failedPackages) = 0 THEN "none"
                            ELSE IF cacheErrorsFound THEN "troubleshooting"
                            ELSE "try manually"]
    /\ pc' = "done"
    /\ UNCHANGED <<pureVars, argv, arg, packageList, individual, idx, env, bucketVars,
                   status, lastLine, promptVars, packagesToInstall, rw, executed,
                   installVars, exitCode>>

\* lines 334-356: the installation summary
Summary ==
    /\ pc = "loop"
    /\ idx > Len(packagesToInstall)
    /\ report' =
          [kind         |-> "summary",
           successCount |-> successCount,
           total        |-> Len(packagesToInstall),
           failed       |-> [k \in 1..Len(failedPackages) |-> failedPackages[k].name],
           commands     |-> [k \in 1..Len(failedPackages) |->
                                 InstallCmd("single", <<failedPackages[k].pkg>>)],
           hint         |-> IF Len(failedPackages) = 0 THEN "none"
                            ELSE IF cacheErrorsFound THEN "troubleshooting"
                            ELSE "try manually"]
    /\ pc' = "done"
    /\ UNCHANGED <<pureVars, argv, arg, packageList, individual, idx, env, bucketVars,
                   status, lastLine, promptVars, packagesToInstall, rw, executed,
                   installVars, exitCode>>

Next ==
    \/ MainAll \/ MainCheck \/ MainTool \/ MainUsage
    \/ CheckTool \/ CheckDone
    \/ Classify \/ ShowSummary \/ Answer \/ Plan
    \/ InstallStart \/ BulkReturn \/ LoopCall \/ LoopReturn \/ Summary
    \/ RWSucceed \/ RWFail \/ RWClearCache \/ RWSleepNetwork \/ RWSleep
    \/ Exit

Spec == Init /\ [][Next]_vars

(***************************************************************************)
(* runWithRetry on its own: any retries value, any package                 *)
(***************************************************************************)
MaxRetries == 3

InitRetry ==
    /\ fin = NoInput
    /\ fout = NoOutput
    /\ argv = NoArg
    /\ arg = "all"
    /\ pc = "call"
    /\ \E n \in 0..MaxRetries, pkg \in PackageSet :
          rw = EnterRunWithRetry(InstallCmd("single", <<pkg>>), n)
    /\ RunAtRest

SpecRetry == InitRetry /\ [][runWithRetry]_vars

(***************************************************************************)
(* compareVersions and the status it decides, on versions written as       *)
(* dot-separated non-negative integers                                     *)
(***************************************************************************)
MaxParts == 3

VersionParts == {0, 2, 10}

Components == UNION {[1..n -> VersionParts] : n \in 1..MaxParts}

ExamplePairs ==
    { <<(<<1, 2>>), (<<1, 2, 0>>)>>,
      <<(<<1, 2, 3>>), (<<1, 2, 4>>)>>,
      <<(<<2, 0, 0>>), (<<1, 9, 9>>)>> }

RECURSIVE Decimal(_)
Decimal(n) ==
    IF n < 10 THEN <<DigitChars[n + 1]>>
    ELSE Decimal(n \div 10) \o <<DigitChars[(n % 10) + 1]>>

\* the components written out and joined by dots
RECURSIVE FormatVersion(_)
FormatVersion(c) ==
    IF Len(c) = 1 THEN Decimal(c[1])
    ELSE FormatVersion(SubSeq(c, 1, Len(c) - 1)) \o <<".">> \o Decimal(c[Len(c)])

\* an installed tool whose listing reports v1 and whose registry answer is v2
EnvWithVersions(probe, v1, v2) ==
    [probe |-> probe,
     list  |-> [kind |-> "json", dep |-> TRUE, version |-> v1],
     view  |-> [ok |-> TRUE, out |-> v2 \o <<"\n">>]]

InitCompare ==
    /\ \E pair \in (Components \X Components) \cup ExamplePairs :
          fin = [fn |-> "compareVersions", a |-> pair[1], b |-> pair[2]]
    /\ fout = NoOutput
    /\ argv = NoArg
    /\ arg = "all"
    /\ pc = "pure"
    /\ rw = IdleFrame
    /\ RunAtRest

Compare ==
    /\ fin.fn = "compareVersions"
    /\ ~fout.done
    /\ \E probe \in ProbeResults, pkg \in PackageSet :
          LET v1 == FormatVersion(fin.a)
              v2 == FormatVersion(fin.b)
          IN  fout' = [done |-> TRUE,
                       cmp  |-> compareVersions(v1, v2),
                       kind |-> StatusOf(pkg, EnvWithVersions(probe, v1, v2))]
    /\ UNCHANGED <<fin, runVars, rw, executed>>

SpecCompare == InitCompare /\ [][Compare]_vars

(***************************************************************************)
(* getErrorType on texts put together from marker and filler fragments     *)
(***************************************************************************)
MaxFrags == 3

Filler == <<"e","x","i","t"," ","1">>

CacheFragments == {ENOENT, ENOTEMPTY, CACACHE, GITCLONE}

NetworkFragments == {ENOTFOUND, ECONNRESET, ETIMEDOUT, NETWORK}

Fragments == CacheFragments \cup NetworkFragments \cup {PACKAGEJSON, TMP, Filler}

FragmentLists == UNION {[1..n -> Fragments] : n \in 0..MaxFrags}

\* "Error: " followed by the fragments, each followed by a blank
RECURSIVE TextOf(_)
TextOf(frags) ==
    IF Len(frags) = 0 THEN ErrPrefix
    ELSE TextOf(SubSeq(frags, 1, Len(frags) - 1)) \o frags[Len(frags)] \o <<" ">>

InitErrorType ==
    /\ \E frags \in FragmentLists : fin = [fn |-> "getErrorType", frags |-> frags]
    /\ fout = NoOutput
    /\ argv = NoArg
    /\ arg = "all"
    /\ pc = "pure"
    /\ rw = IdleFrame
    /\ RunAtRest

Classified ==
    /\ fin.fn = "getErrorType"
    /\ ~fout.done
    /\ fout' = [done |-> TRUE, type |-> getErrorType(TextOf(fin.frags))]
    /\ UNCHANGED <<fin, runVars, rw, executed>>

SpecErrorType == InitErrorType /\ [][Classified]_vars

(***************************************************************************)
(* One iteration of the 'check' loop (lines 378-401) for any entry of the  *)
(* full tables packages and binaries, in any environment                   *)
(***************************************************************************)
AllNames == {AllKeys[i] : i \in 1..Len(AllKeys)}

InitCheckOne ==
    /\ \E name \in AllNames, e \in ToolEnvs :
          fin = [fn |-> "check", name |-> name, env |-> e]
    /\ fout = NoOutput
    /\ argv = NoArg
    /\ arg = "check"
    /\ pc = "pure"
    /\ rw = IdleFrame
    /\ RunAtRest

CheckOne ==
    /\ fin.fn = "check"
    /\ ~fout.done
    /\ fout' = [done |-> TRUE, line |-> CheckLine(fin.name, fin.env)]
    /\ UNCHANGED <<fin, runVars, rw, executed>>

SpecCheckOne == InitCheckOne /\ [][CheckOne]_vars

(***************************************************************************)
(* The 'check' loop body (lines 378-401) and the classification loop body  *)
(* (lines 222-247) on the same tool in the same environment                *)
(***************************************************************************)
InitBothPaths ==
    /\ \E name \in KeySet, e \in ToolEnvs :
          fin = [fn |-> "both", name |-> name, env |-> e]
    /\ fout = NoOutput
    /\ argv = NoArg
    /\ arg = "all"
    /\ pc = "pure"
    /\ rw = IdleFrame
    /\ RunAtRest

BothPaths ==
    /\ fin.fn = "both"
    /\ ~fout.done
    /\ fout' = [done    |-> TRUE,
                check   |-> CheckLine(fin.name, fin.env),
                install |-> InstallLine(packages[fin.name], fin.env)]
    /\ UNCHANGED <<fin, runVars, rw, executed>>

SpecBothPaths == InitBothPaths /\ [][BothPaths]_vars

(***************************************************************************)
(* Properties                                                              *)
(***************************************************************************)

\* C1: runWithRetry(cmd, N) executes cmd until its first success or until N+1
\* executions, whichever comes first.  It executes cmd again only after a
\* failure and never more than N+1 times; it returns true right after the first
\* successful execution; it returns false only after exactly N+1 executions that
\* all failed; and it never stops before one of the two.
C1_RetryUntilSuccessOrExhausted ==
    /\ rw.execs <= rw.retries + 1
    /\ rw.pc \in {"try", "caught"} =>
          /\ rw.fails = rw.execs
          /\ rw.execs <= rw.retries
          /\ ENABLED runWithRetry
    /\ (rw.pc = "ret" /\ rw.result) =>
          /\ rw.execs = rw.fails + 1
          /\ rw.last = "cmd"
    /\ (rw.pc = "ret" /\ ~rw.result) =>
          /\ rw.fails = rw.execs
          /\ rw.execs = rw.retries + 1
    /\ rw.pc = "ret" => ~ENABLED runWithRetry

\* with N = 2, a command that failed twice and then succeeded: 3 executions, true
C1_Witness ==
    /\ rw.pc = "ret"
    /\ rw.retries = 2
    /\ rw.result
    /\ rw.fails = 2
    /\ rw.execs = 3

(***************************************************************************)
(* Field-wise comparison of the written components, the shorter list       *)
(* padded with zeros                                                       *)
(***************************************************************************)
Padded(c, n) == [i \in 1..n |-> IF i <= Len(c) THEN c[i] ELSE 0]

FieldwiseLess(a, b) ==
    LET n  == Max(Len(a), Len(b))
        pa == Padded(a, n)
        pb == Padded(b, n)
    IN  \E k \in 1..n : pa[k] < pb[k] /\ \A j \in 1..(k - 1) : pa[j] = pb[j]

\* C6: on versions written as dot-separated non-negative integers compareVersions
\* is the field-wise numeric comparison with zero padding (-1, 0, 1), and a tool
\* with both versions present gets "update available" iff local is strictly less
\* than remote and "up to date" otherwise.
C6_CompareIsPaddedFieldwise ==
    fout.done =>
        /\ ~fout.cmp.isFalse
        /\ fout.cmp.num = -1 <=> FieldwiseLess(fin.a, fin.b)
        /\ fout.cmp.num = 1 <=> FieldwiseLess(fin.b, fin.a)
        /\ fout.cmp.num = 0 <=> (~FieldwiseLess(fin.a, fin.b) /\ ~FieldwiseLess(fin.b, fin.a))
        /\ fout.kind = "update available" <=> FieldwiseLess(fin.a, fin.b)
        /\ fout.kind = "up to date" <=> ~FieldwiseLess(fin.a, fin.b)

\* "1.2" against "1.2.0": equal, up to date
C6_Witness ==
    /\ fout.done
    /\ fin.a = <<1, 2>>
    /\ fin.b = <<1, 2, 0>>
    /\ fout.cmp.num = 0
    /\ fout.kind = "up to date"

(***************************************************************************)
(* Which marker sets a text was put together from                          *)
(***************************************************************************)
HasCacheMarker(frags) ==
    \/ \E k \in 1..Len(frags) : frags[k] \in CacheFragments
    \/ (PACKAGEJSON \in Range(frags) /\ TMP \in Range(frags))

HasNetworkMarker(frags) == \E k \in 1..Len(frags) : frags[k] \in NetworkFragments

\* C9: getErrorType gives "cache" for every text with a cache marker, also when
\* a network marker is present as well; "network" exactly when no cache marker
\* but a network marker is present; "unknown" exactly when neither is; and one
\* of the three for every text.
C9_CachePrecedence ==
    fout.done =>
        /\ fout.type \in {"cache", "network", "unknown"}
        /\ fout.type = "cache" <=> HasCacheMarker(fin.frags)
        /\ fout.type = "network" <=>
              (~HasCacheMarker(fin.frags) /\ HasNetworkMarker(fin.frags))
        /\ fout.type = "unknown" <=>
              (~HasCacheMarker(fin.frags) /\ ~HasNetworkMarker(fin.frags))

\* a text with both ENOTEMPTY and ETIMEDOUT, classified cache
C9_Witness ==
    /\ fout.done
    /\ ENOTEMPTY \in Range(fin.frags)
    /\ ETIMEDOUT \in Range(fin.frags)
    /\ fout.type = "cache"

(***************************************************************************)
(* Vocabulary of the run properties                                        *)
(***************************************************************************)
\* the operator's line, lower-cased and trimmed, is exactly "y" or "yes"
SaidYes ==
    /\ rawAnswer # Null
    /\ trim(toLowerCase(rawAnswer)) \in {<<"y">>, <<"y","e","s">>}

\* the prompt was answered, and not with a yes
Declined == rawAnswer # Null /\ ~SaidYes

\* packages of the install commands executed so far, by kind of command
ExecutedPkgs(kind) == {x.pkg : x \in {y \in executed : y.kind = kind}}

\* packages of the command runWithRetry is executing
InFlightPkgs == IF rw.pc \in {"try", "caught"} THEN Range(rw.cmd.pkgs) ELSE {}

CommandedPkgs == ExecutedPkgs("bulk") \cup ExecutedPkgs("single") \cup InFlightPkgs

IsUpdate(p) == status[NameOf(p)] \in {"update available", "could not check"}

IsNew(p) == status[NameOf(p)] = "not installed"

IsUpToDate(p) == status[NameOf(p)] = "up to date"

\* the requested tools classified as needing an update, in requested order
UpdatePartition == SelectSeq(packageList, IsUpdate)

\* the requested tools classified not installed, in requested order
NewPartition == SelectSeq(packageList, IsNew)

\* installPackagesWithConfirmation has computed packagesToInstall
Planned ==
    \/ pc \in {"install", "bulk", "loop", "installing"}
    \/ (pc \in {"done", "exited"} /\ arg # "check" /\ report.kind # "usage")

\* the run is over
Finished == pc \in {"done", "exited"}

\* C2: no install command, bulk or individual, that includes a tool classified
\* not installed is executed unless the operator's answer, lower-cased and
\* trimmed, is exactly "y" or "yes".
C2_NewInstallsNeedYes ==
    \A p \in CommandedPkgs : IsNew(p) => SaidYes

\* a not-installed tool's install command was executed, after a yes
C2_Witness ==
    /\ \E p \in ExecutedPkgs("single") \cup ExecutedPkgs("bulk") : IsNew(p)
    /\ rawAnswer = <<" ","Y","E","S"," ">>

\* C3: after a decline the plan handed to installation is exactly the update
\* partition, same tools in the same order, with no not-installed tool in it;
\* whatever the answer the update partition is in the plan and, once the run is
\* over, has had install commands executed; and the answer changes nothing of
\* the classification, so that every declining answer (the empty one, "n")
\* yields the same plan.
C3_State ==
    /\ (Planned /\ Declined) =>
          /\ packagesToInstall = UpdatePartition
          /\ \A p \in Range(packagesToInstall) : ~IsNew(p)
    /\ Planned =>
          SubSeq(packagesToInstall, 1, Len(UpdatePartition)) = UpdatePartition
    /\ (Planned /\ Finished) => Range(UpdatePartition) \subseteq CommandedPkgs

C3_Step ==
    pc = "awaiting" =>
        /\ installedPackages' = installedPackages
        /\ upToDatePackages' = upToDatePackages
        /\ status' = status
        /\ packageList' = packageList

C3_DeclineKeepsUpdates == []C3_State /\ [][C3_Step]_vars

\* the empty answer declined the new tools, and the updates were installed
C3_Witness ==
    /\ Finished
    /\ rawAnswer = <<>>
    /\ NewPartition # <<>>
    /\ packagesToInstall # <<>>
    /\ Range(packagesToInstall) \subseteq ExecutedPkgs("single")

\* C4: once installation goes one at a time, every tool of the accepted plan
\* has its individual install started and executed, in turn, whatever the
\* outcome of the installs before it: while tools are left the next install can
\* start, also after failures, and the summary is reached only when all had
\* their install command executed.
C4_FailuresDoNotStopTheLoop ==
    /\ pc \in {"loop", "installing"} =>
          /\ idx <= Len(packagesToInstall) + 1
          /\ attempted = SubSeq(packagesToInstall, 1,
                                IF pc = "loop" THEN idx - 1 ELSE idx)
          /\ Len(failedPackages) + successCount = idx - 1
    /\ (pc = "loop" /\ idx <= Len(packagesToInstall)) => ENABLED LoopCall
    /\ (pc = "loop" /\ idx <= Len(packagesToInstall)) => ~ENABLED Summary
    /\ report.kind = "summary" =>
          /\ attempted = packagesToInstall
          /\ Range(packagesToInstall) \subseteq ExecutedPkgs("single")

\* the first tool's retries were exhausted, and the second was still installed
C4_Witness ==
    /\ report.kind = "summary"
    /\ Len(packagesToInstall) = 2
    /\ Len(failedPackages) = 1
    /\ failedPackages[1].pkg = packagesToInstall[1]
    /\ successCount = 1

Count(seq, p) == Cardinality({i \in 1..Len(seq) : seq[i] = p})

\* the requested tools the classification loop has been through
ClassifiedSoFar ==
    IF pc = "classify" THEN SubSeq(packageList, 1, idx - 1)
    ELSE IF pc = "awaiting" THEN packageList
    ELSE <<>>

\* the external queries found the last classified tool not installed: the
\* probe failed and the listing failed, was malformed or lacks the package
LastDetectedAbsent ==
    /\ pc = "classify"
    /\ idx > 1
    /\ ~env.probe.ok
    /\ ~(env.list.kind = "json" /\ env.list.dep)

\* C5: when classification is over every requested tool is in exactly one of
\* the buckets up-to-date, update, not-installed (and was so at each step for
\* the tools classified so far); a tool in the up-to-date bucket is never in the
\* plan nor in any install command; a tool found not installed goes to the
\* not-installed bucket, never to the up-to-date one.
C5_BucketsPartition ==
    /\ \A p \in Range(ClassifiedSoFar) :
          Count(upToDatePackages, p) + Count(installedPackages, p)
              + Count(newPackages, p) = 1
    /\ \A p \in Range(upToDatePackages) :
          /\ p \notin Range(packagesToInstall)
          /\ p \notin CommandedPkgs
          /\ ~IsNew(p)
    /\ LastDetectedAbsent =>
          /\ packageList[idx - 1] \in Range(newPackages)
          /\ packageList[idx - 1] \notin Range(upToDatePackages)

\* one tool up to date, the other installed by the run
C5_Witness ==
    /\ Finished
    /\ Len(packageList) = 2
    /\ Len(upToDatePackages) = 1
    /\ Len(packagesToInstall) = 1
    /\ Range(packagesToInstall) \subseteq ExecutedPkgs("single")

\* the installing step is over
InstallingOver == Planned /\ Finished /\ packagesToInstall # <<>>

\* C7: the bulk command is executed iff the plan has more than one tool and the
\* run is not in individual mode, it then covers every tool of the plan and
\* comes before any individual install; individual installs are executed only
\* when no bulk was attempted or the bulk returned failure; after a successful
\* bulk no individual install is executed; a named-tool run executes no bulk.
C7_BulkFirst ==
    /\ ExecutedPkgs("bulk") # {} =>
          /\ ~individual
          /\ Len(packagesToInstall) > 1
          /\ ExecutedPkgs("bulk") = Range(packagesToInstall)
    /\ InstallingOver =>
          (ExecutedPkgs("bulk") # {} <=> (~individual /\ Len(packagesToInstall) > 1))
    /\ (ExecutedPkgs("single") # {} \/ attempted # <<>>) => bulk \in {"none", "failed"}
    /\ bulk = "none" => ExecutedPkgs("bulk") = {}
    /\ bulk \in {"running", "ok"} => (ExecutedPkgs("single") = {} /\ attempted = <<>>)
    /\ (InstallingOver /\ bulk # "ok") => ExecutedPkgs("single") = Range(packagesToInstall)
    /\ arg \in KeySet => (individual \/ pc = "main") /\ ExecutedPkgs("bulk") = {}

\* the bulk command failed and the tools were installed one at a time
C7_Witness ==
    /\ InstallingOver
    /\ bulk = "failed"
    /\ ExecutedPkgs("bulk") = ExecutedPkgs("single")
    /\ Len(packagesToInstall) = 2

\* C8 as stated: after a failed bulk install the tools are installed one at a
\* time in the order in which they appear in the requested list.
C8_RequestedOrder ==
    (bulk = "failed" /\ report.kind = "summary") =>
        attempted = SelectSeq(packageList, LAMBDA p : p \in Range(packagesToInstall))

\* the not-installed tools the operator said yes to, in requested order
ConfirmedNew == IF SaidYes THEN NewPartition ELSE <<>>

\* C8 amended: after a failed bulk install the tools are installed one at a time
\* in the order of the plan: the tools needing an update in requested order,
\* then the confirmed not-installed tools in requested order.
C8_UpdatesThenNewOrder ==
    /\ bulk = "failed" =>
          /\ packagesToInstall = UpdatePartition \o ConfirmedNew
          /\ attempted = SubSeq(packagesToInstall, 1, Len(attempted))
    /\ (bulk = "failed" /\ report.kind = "summary") =>
          attempted = UpdatePartition \o ConfirmedNew

\* the first requested tool was new, the second an update: installed second, first
C8_Witness ==
    /\ bulk = "failed"
    /\ report.kind = "summary"
    /\ Len(packageList) = 2
    /\ IsNew(packageList[1])
    /\ IsUpdate(packageList[2])
    /\ attempted = <<packageList[2], packageList[1]>>

\* the probe failed, the listing shows no installed package, the registry query failed
NothingInstalledNoRegistry ==
    /\ ~env.probe.ok
    /\ ~(env.list.kind = "json" /\ env.list.dep)
    /\ ~env.view.ok

\* C10: a 'check' run executes no install command, starts no runWithRetry (so
\* never clears the cache) and issues no prompt; it prints a status line for
\* every managed tool, and for a tool that is not installed while the registry
\* lookup fails the line is "not installed (latest: unknown)".
C10_CheckOnlyReports ==
    arg = "check" =>
        /\ executed = {}
        /\ rw = IdleFrame
        /\ prompts = 0
        /\ rawAnswer = Null
        /\ packagesToInstall = <<>>
        /\ (pc = "check" /\ idx > 1) =>
              /\ lastLine.name = Keys[idx - 1]
              /\ status[Keys[idx - 1]] = lastLine.kind
              /\ NothingInstalledNoRegistry =>
                    (lastLine.kind = "not installed" /\ lastLine.latest = Unknown)
        /\ Finished => \A k \in KeySet : status[k] # "none"

\* the check is over: nothing installed, no registry, every tool "not installed"
C10_Witness ==
    /\ arg = "check"
    /\ pc = "done"
    /\ NothingInstalledNoRegistry
    /\ lastLine.latest = Unknown
    /\ \A k \in KeySet : status[k] = "not installed"


(***************************************************************************)
(* The exit status of a run.                                               *)
(***************************************************************************)
\* the arguments the usage text names: none, all, check, or a tool of the
\* registry
Recognised == {NoArg, "all", "check"} \cup KeySet

\* C11: a run that has exited has a non-zero exit status exactly when its
\* argument is neither absent, 'all', 'check' nor a key of the registry.
C11_ExitStatusByArgument ==
    pc = "exited" => (exitCode # 0 <=> argv \notin Recognised)

(***************************************************************************)
(* The report of an install run.                                           *)
(***************************************************************************)
\* an 'all' or named-tool run is over
InstallRunOver == Finished /\ arg # "check" /\ report.kind # "usage"

\* the report says that nothing needed installation
SaysNothingToInstall == report.kind \in {"all up to date", "nothing to install"}

\* the report is the summary of the plan: the succeeded count out of the plan's
\* size, and each failed tool by name with its manual install command
IsPlanSummary ==
    /\ report.kind = "summary"
    /\ report.total = Len(packagesToInstall)
    /\ report.successCount = Len(packagesToInstall) - Len(failedPackages)
    /\ Len(report.failed) = Len(failedPackages)
    /\ Len(report.commands) = Len(failedPackages)
    /\ \A k \in 1..Len(failedPackages) :
          /\ failedPackages[k].pkg \in Range(packagesToInstall)
          /\ report.failed[k] = DisplayNameOf(failedPackages[k].pkg)
          /\ report.commands[k] = InstallCmd("single", <<failedPackages[k].pkg>>)

\* C12 as stated: every 'all' or named-tool run that is over has reported; with
\* an empty plan the report says nothing needed installation, and otherwise,
\* bulk or individual, it is the summary with the succeeded count and the
\* failed tools with their manual install commands.
C12_SummaryWhateverThePath ==
    InstallRunOver =>
        IF packagesToInstall = <<>> THEN SaysNothingToInstall ELSE IsPlanSummary

\* C12 amended: every 'all' or named-tool run that is over has reported; with
\* an empty plan the report says nothing needed installation; after a bulk
\* command that succeeded it says that all packages were installed, and nothing
\* else; after individual installs it is the summary with the succeeded count
\* and the failed tools with their manual install commands.
C12_ReportBeforeDone ==
    InstallRunOver =>
        /\ report.kind # "none"
        /\ packagesToInstall = <<>> => SaysNothingToInstall
        /\ (packagesToInstall # <<>> /\ bulk = "ok") =>
              /\ report.kind = "all installed"
              /\ failedPackages = <<>>
              /\ Range(packagesToInstall) = ExecutedPkgs("bulk")
        /\ (packagesToInstall # <<>> /\ bulk # "ok") => IsPlanSummary

\* a run whose bulk command failed and whose summary lists one failed tool
C12_Witness ==
    /\ InstallRunOver
    /\ bulk = "failed"
    /\ report.kind = "summary"
    /\ Len(report.failed) = 1
    /\ report.successCount = 1

(***************************************************************************)
(* Tools whose version could not be determined.                            *)
(***************************************************************************)
\* the tool the classification loop has just been through
LastClassified == packageList[idx - 1]

\* the classification loop has just been through a tool that the probe of its
\* binary, or the listing of global packages, shows as installed
LastDetectedInstalled ==
    /\ pc = "classify"
    /\ idx > 1
    /\ \/ BinaryAt(NameOf(LastClassified)) # Undefined /\ env.probe.ok
       \/ env.list.kind = "json" /\ env.list.dep

\* the listing gave no version of the package, or the registry gave none
LastVersionUndetermined ==
    \/ ~Truthy(getLocalPackageVersion(env))
    \/ ~Truthy(getRemotePackageVersion(env))

\* C13: a tool detected as installed whose local or remote version could not
\* be determined goes to the update partition; every such tool is in the plan
\* once the plan is made, and has had an install command executed once the run
\* is over, whatever the answer to the prompt.
C13_UndeterminedVersionIsUpdated ==
    /\ (LastDetectedInstalled /\ LastVersionUndetermined) =>
          /\ lastLine.kind = "could not check"
          /\ Count(installedPackages, LastClassified) = 1
          /\ LastClassified \notin Range(upToDatePackages) \cup Range(newPackages)
    /\ \A p \in Range(packageList) :
          status[NameOf(p)] = "could not check" =>
             /\ p \in Range(installedPackages)
             /\ Planned => p \in Range(packagesToInstall)
             /\ (Planned /\ Finished) =>
                   p \in ExecutedPkgs("bulk") \cup ExecutedPkgs("single")

\* the operator declined the new tool, and the tool of undetermined version
\* was installed
C13_Witness ==
    /\ Finished
    /\ Declined
    /\ \E p \in Range(packageList) :
          /\ status[NameOf(p)] = "could not check"
          /\ p \in ExecutedPkgs("single")

(***************************************************************************)
(* Which tools count as not installed.                                     *)
(***************************************************************************)
\* the classification loop has just been through a tool
JustClassified == pc = "classify" /\ idx > 1

\* C14 as stated: a tool is put in the not-installed partition exactly when
\* the lookup of its local version yields absent, whatever the probe reports.
C14_NotInstalledIffLocalAbsent ==
    JustClassified =>
        (LastClassified \in Range(newPackages)
            <=> ~Truthy(getLocalPackageVersion(env)))

\* C14 amended: a tool is put in the not-installed partition exactly when the
\* probe of its binary fails (or it has no binary) and the listing of global
\* packages fails, is malformed or lacks the package; a tool whose probe
\* succeeds while its local version is absent goes to the update partition as
\* of undetermined version.
C14_NotInstalledIffNotDetected ==
    JustClassified =>
        /\ LastClassified \in Range(newPackages) <=> ~LastDetectedInstalled
        /\ LastClassified \in Range(newPackages) <=> lastLine.kind = "not installed"
        /\ (LastDetectedInstalled /\ ~Truthy(getLocalPackageVersion(env))) =>
              /\ lastLine.kind = "could not check"
              /\ LastClassified \in Range(installedPackages)

\* the probe answered, the listing lacks the package: update partition
C14_Witness ==
    /\ JustClassified
    /\ env.probe.ok
    /\ env.list.kind = "json"
    /\ ~env.list.dep
    /\ LastClassified \in Range(installedPackages)

(***************************************************************************)
(* What runWithRetry does between two attempts.                            *)
(***************************************************************************)
\* a non-final attempt has failed and nothing was done about it yet
Caught == rw.pc = "caught"

\* the step taken leaves cmd unexecuted and leads to the next attempt
ToNextAttempt ==
    /\ rw'.pc = "try"
    /\ rw'.i = rw.i + 1
    /\ rw'.i <= rw.retries
    /\ rw'.execs = rw.execs

\* C16: after a non-final attempt that failed with a cache error, the cache
\* not yet cleared in this call, the next step is the cache clear, cleared or
\* not, with no sleep; the step after a cache clear is the next execution of
\* the command; a cache clear never makes the call return.
C16_ClearThenRetryAtOnce ==
    /\ [](rw.last = "clear" =>
             /\ rw.pc = "try"
             /\ rw.wait = 0
             /\ ENABLED RWSucceed /\ ENABLED RWFail)
    /\ [][(Caught /\ rw.errorType = "cache" /\ ~rw.cacheCleared) =>
             /\ ToNextAttempt
             /\ rw'.last = "clear"
             /\ rw'.clears = rw.clears + 1
             /\ rw'.wait = 0]_vars
    /\ [][rw.last = "clear" =>
             /\ rw'.last = "cmd"
             /\ rw'.execs = rw.execs + 1
             /\ rw'.clears = rw.clears]_vars

\* the second attempt was made right after a cache clear that failed
C16_Witness ==
    /\ rw.execs = 2
    /\ rw.last = "cmd"
    /\ rw.clears = 1
    /\ ~rw.cacheCleared

\* C17: after a non-final attempt that failed with a network error the next
\* step is one sleep of NetworkWait = 5 seconds; after one that failed with an
\* unknown error, or with a cache error when the cache was already cleared, it
\* is one sleep of DefaultWait = 2 seconds; the step after a sleep is the next
\* execution of the command; 5 > 2; and a call that has returned has not slept
\* since its last attempt.
C17_OneWaitBetweenAttempts ==
    /\ [](/\ NetworkWait = 5 /\ DefaultWait = 2 /\ NetworkWait > DefaultWait
          /\ rw.last = "sleep" => rw.pc = "try" /\ rw.wait \in {NetworkWait, DefaultWait}
          /\ rw.pc = "ret" => rw.last = "cmd" /\ rw.wait = 0)
    /\ [][(Caught /\ rw.errorType = "network") =>
             /\ ToNextAttempt
             /\ rw'.last = "sleep"
             /\ rw'.wait = NetworkWait]_vars
    /\ [][(Caught /\ (rw.errorType = "unknown"
                        \/ (rw.errorType = "cache" /\ rw.cacheCleared))) =>
             /\ ToNextAttempt
             /\ rw'.last = "sleep"
             /\ rw'.wait = DefaultWait]_vars
    /\ [][rw.last = "sleep" =>
             /\ rw'.last = "cmd"
             /\ rw'.execs = rw.execs + 1]_vars

\* the wait after a first attempt that failed with a network error
C17_Witness ==
    /\ rw.last = "sleep"
    /\ rw.errorType = "network"
    /\ rw.wait = NetworkWait
    /\ rw.execs = 1

(***************************************************************************)
(* The order of the steps of an install run.                               *)
(***************************************************************************)
\* position of a step in the order resolving (and partitioning), awaiting
\* confirmation, planning, installing, reporting and done, exit
StepRank(p) ==
    CASE p = "main" -> 0
      [] p \in {"classify", "check"} -> 1
      [] p = "awaiting" -> 2
      [] p = "plan" -> 3
      [] p \in {"install", "bulk", "loop", "installing"} -> 4
      [] p = "done" -> 5
      [] p = "exited" -> 6

\* an 'all' or named-tool run, past the dispatch of main
InstallRun == pc # "main" /\ arg # "check" /\ report.kind # "usage"

\* every requested tool has been through the classification loop
AllClassified ==
    /\ \A p \in Range(packageList) : status[NameOf(p)] # "none"
    /\ Len(installedPackages) + Len(upToDatePackages) + Len(NewPartition)
          = Len(packageList)

\* an install command is being executed, or was
InstallBegun == rw.pc # "idle" \/ executed # {} \/ attempted # <<>>

\* C18: in an 'all' or named-tool run the steps never go backwards in the order
\* resolving, awaiting confirmation, planning, installing, reporting, done; the
\* prompt is issued at most once, and once classification is over it has been
\* issued iff the not-installed partition is non-empty; it is issued only
\* after every requested tool was classified; no install command is executed
\* before classification is over nor, when the prompt was issued, before the
\* answer was received; and the report is made when the run is done.
C18_StepOrder ==
    /\ [](InstallRun =>
             /\ prompts <= 1
             /\ StepRank(pc) >= 2 => (prompts = 1 <=> NewPartition # <<>>)
             /\ StepRank(pc) < 2 => (prompts = 0 /\ rawAnswer = Null)
             /\ prompts = 1 => AllClassified
             /\ pc = "awaiting" <=> (prompts = 1 /\ rawAnswer = Null)
             /\ InstallBegun =>
                   /\ AllClassified
                   /\ StepRank(pc) >= 4
                   /\ prompts = 1 => rawAnswer # Null
             /\ StepRank(pc) <= 3 => packagesToInstall = <<>>
             /\ StepRank(pc) >= 5 <=> report.kind # "none")
    /\ [][StepRank(pc') >= StepRank(pc)]_vars
    /\ [][prompts' # prompts => (pc = "classify" /\ pc' = "awaiting")]_vars

\* a run that asked once, was answered yes, and installed the new tool
C18_Witness ==
    /\ InstallRun
    /\ Finished
    /\ prompts = 1
    /\ SaidYes
    /\ \E p \in ExecutedPkgs("bulk") \cup ExecutedPkgs("single") : IsNew(p)

(***************************************************************************)
(* Versions that are not dot-separated numbers.                            *)
(***************************************************************************)
\* v is made of non-empty runs of decimal digits separated by dots
IsDottedNumeric(v) ==
    LET parts == split(v, ".")
    IN  \A k \in 1..Len(parts) :
            /\ parts[k] # <<>>
            /\ \A i \in 1..Len(parts[k]) : IsDigit(parts[k][i])

\* the tool just classified has a local version and a remote version, and one
\* of the two is not a dotted-numeric version
LastVersionUnparsable ==
    /\ JustClassified
    /\ LastDetectedInstalled
    /\ Truthy(getLocalPackageVersion(env))
    /\ Truthy(getRemotePackageVersion(env))
    /\ \/ ~IsDottedNumeric(getLocalPackageVersion(env))
       \/ ~IsDottedNumeric(getRemotePackageVersion(env))

\* C19: a tool whose local version is present, and whose local or remote
\* version is not a dotted-numeric version, is reported as could-not-check and
\* put in the update partition, never in the up-to-date bucket.
C19_UnparsableIsUnknown ==
    LastVersionUnparsable =>
        /\ lastLine.kind = "could not check"
        /\ LastClassified \in Range(installedPackages)
        /\ LastClassified \notin Range(upToDatePackages)

(***************************************************************************)
(* Version lookups that fail.                                              *)
(***************************************************************************)
\* a tool has just been through the loop of the install run or of 'check'
JustResolved == pc \in {"classify", "check"} /\ idx > 1

\* the listing of global packages exited non-zero, was malformed, or lacks
\* the package
ListingFailed == env.list.kind # "json" \/ ~env.list.dep

\* the registry query failed
RegistryFailed == ~env.view.ok

\* the tool just resolved was given a status line, and the loop goes on
LineWrittenAndLoopGoesOn ==
    /\ lastLine.kind # "none"
    /\ exitCode = -1
    /\ pc = "classify" =>
          /\ status[NameOf(LastClassified)] = lastLine.kind
          /\ Len(installedPackages) + Len(upToDatePackages) + Len(newPackages)
                = idx - 1
          /\ idx <= Len(packageList) => ENABLED Classify
    /\ pc = "check" =>
          /\ status[Keys[idx - 1]] = lastLine.kind
          /\ idx <= Len(Keys) => ENABLED CheckTool

\* C20: when the listing fails, is malformed or lacks the package, the local
\* version is absent and the tool is never given a compared status; when the
\* registry query fails the remote version is absent, shown as unknown or not
\* at all; in both cases the tool gets its status line and the loop goes on to
\* the next tool; a run that is over has given a status to every requested tool.
C20_LookupsNeverRaise ==
    /\ (JustResolved /\ ListingFailed) =>
          /\ getLocalPackageVersion(env) = Null
          /\ lastLine.kind \in {"could not check", "unable to check", "not installed"}
          /\ pc = "classify" => lastLine.display = Null
          /\ LineWrittenAndLoopGoesOn
    /\ (JustResolved /\ RegistryFailed) =>
          /\ getRemotePackageVersion(env) = Null
          /\ lastLine.kind \in {"could not check", "unable to check", "not installed"}
          /\ lastLine.latest \in {Null, Unknown}
          /\ LineWrittenAndLoopGoesOn
    /\ (Finished /\ report.kind # "usage") =>
          /\ arg = "check" => \A k \in KeySet : status[k] # "none"
          /\ arg # "check" => \A p \in Range(packageList) : status[NameOf(p)] # "none"

\* a lookup of the first tool gave no version, and the second tool was classified
C20_Witness ==
    /\ pc = "classify"
    /\ idx = 3
    /\ status[NameOf(packageList[1])] = "could not check"
    /\ ~RegistryFailed
    /\ ~ListingFailed
    /\ lastLine.kind = "up to date"

(***************************************************************************)
(* The version the probe reports, and what 'check' does with it.           *)
(***************************************************************************)
\* the probe of the binary succeeded and printed something
ProbeReports(e) == e.probe.ok /\ Truthy(trim(e.probe.out))

FirstLine(s) == split(s, "\n")[1]

\* the comparison that decides between up to date and update available was
\* made on local version v
DecidedOn(line, v, remote) ==
    /\ line.kind = "update available" <=> compareVersions(v, remote).num < 0
    /\ line.kind = "up to date" <=> compareVersions(v, remote).num >= 0

C22_ClearAtMostOnce == rw.clears <= 1

\* C22 amended: within one call the cache-clear command is executed only while
\* no cache clear of the call has succeeded, so it succeeds at most once and is
\* never executed after it succeeded; a cache clear that failed is executed
\* again after the next non-final failure with a cache error, which makes at
\* most one cache clear per non-final attempt, `retries` in all.
C22_ClearUntilCleared ==
    /\ [](/\ rw.clears <= rw.retries
          /\ rw.clears <= rw.fails
          /\ rw.cacheCleared => rw.clears >= 1)
    /\ [][rw'.clears # rw.clears =>
             /\ ~rw.cacheCleared
             /\ rw.errorType = "cache"
             /\ rw'.clears = rw.clears + 1]_vars
    /\ [][rw.cacheCleared => (rw'.cacheCleared /\ rw'.clears = rw.clears)]_vars

\* a call with 2 retries that cleared the cache twice: the first clear failed
C22_Witness ==
    /\ rw.pc = "ret"
    /\ rw.retries = 2
    /\ rw.clears = 2
    /\ rw.cacheCleared

(***************************************************************************)
(* The cache is never cleared after the final attempt.                     *)
(***************************************************************************)
\* C23: a cache clear is executed only after an attempt that is not the final
\* one (attempt retries+1); after every cache clear the call is about to make
\* another attempt, and its next step is that attempt; a call that has
\* returned executed the command last, not the cache clear.
C23_ClearIsNeverLast ==
    /\ [](/\ rw.last = "clear" =>
                /\ rw.pc = "try"
                /\ rw.i <= rw.retries
                /\ rw.execs <= rw.retries
                /\ ENABLED (RWSucceed \/ RWFail)
          /\ rw.pc = "ret" => rw.last = "cmd")
    /\ [][rw'.clears # rw.clears => rw.execs = rw.i + 1 /\ rw.i < rw.retries]_vars
    /\ [][rw.last = "clear" => rw'.execs = rw.execs + 1]_vars

\* the final attempt failed with a cache error, the cache never cleared with
\* success, and the call returned without clearing it once more
C23_Witness ==
    /\ rw.pc = "ret"
    /\ ~rw.result
    /\ rw.errorType = "cache"
    /\ ~rw.cacheCleared
    /\ rw.clears = rw.retries
    /\ rw.retries >= 1

(***************************************************************************)
(* 'check' against the install path.                                       *)
(***************************************************************************)
\* C24: in the same environment 'check' reports a tool not installed iff the
\* install path puts it in the not-installed partition, an update available
\* iff the install path finds one by comparison, and unable to check iff the
\* install path reports could not check.
C24_PathsAgree ==
    fout.done =>
        /\ fout.check.kind = "not installed" <=> fout.install.kind = "not installed"
        /\ fout.check.kind = "update available" <=> fout.install.kind = "update available"
        /\ fout.check.kind = "up to date" <=> fout.install.kind = "up to date"
        /\ fout.check.kind = "unable to check" <=> fout.install.kind = "could not check"

(***************************************************************************)
(* The bookkeeping of the individual install loop.                         *)
(***************************************************************************)
\* the packages of the failed list, in the order of the list
FailedPkgs == [k \in 1..Len(failedPackages) |-> failedPackages[k].pkg]

IsFailed(p) == \E k \in 1..Len(failedPackages) : failedPackages[k].pkg = p

\* runWithRetry has returned to the individual loop, which has not taken the
\* result yet
ReturnedToLoop == pc = "installing" /\ rw.pc = "ret"

\* C25: in the individual loop runWithRetry is invoked once per tool of the
\* plan, in plan order, with 2 retries and the tool's own install command; a
\* call that returned true adds one to the succeeded count and nothing to the
\* failed list, a call that returned false appends its tool to the failed list
\* and nothing to the count; so the failed list is a sublist of the plan, in
\* plan order, the count plus its length is the number of tools gone through,
\* and the plan's size in the summary, where each failed tool is listed with
\* its own package identifier in the manual install command.
C25_LoopBookkeeping ==
    /\ [](/\ pc = "installing" =>
                /\ rw.retries = 2
                /\ rw.cmd = InstallCmd("single", <<packagesToInstall[idx]>>)
                /\ attempted = SubSeq(packagesToInstall, 1, idx)
          /\ pc = "loop" =>
                /\ attempted = SubSeq(packagesToInstall, 1, idx - 1)
                /\ successCount + Len(failedPackages) = idx - 1
                /\ FailedPkgs = SelectSeq(attempted, IsFailed)
          /\ \A p \in Range(attempted) : Count(attempted, p) = 1
          /\ report.kind = "summary" =>
                /\ attempted = packagesToInstall
                /\ report.successCount + Len(report.failed) = Len(packagesToInstall)
                /\ report.total = Len(packagesToInstall)
                /\ \A k \in 1..Len(failedPackages) :
                      /\ report.failed[k] = DisplayNameOf(FailedPkgs[k])
                      /\ report.commands[k] = InstallCmd("single", <<FailedPkgs[k]>>))
    /\ [][(ReturnedToLoop /\ rw.result) =>
             /\ successCount' = successCount + 1
             /\ failedPackages' = failedPackages]_vars
    /\ [][(ReturnedToLoop /\ ~rw.result) =>
             /\ successCount' = successCount
             /\ Len(failedPackages') = Len(failedPackages) + 1
             /\ FailedPkgs' = Append(FailedPkgs, packagesToInstall[idx])]_vars
    /\ [][(successCount' # successCount \/ failedPackages' # failedPackages) =>
             ReturnedToLoop]_vars

\* two tools installed one at a time: the first succeeded, the second failed
C25_Witness ==
    /\ report.kind = "summary"
    /\ Len(packagesToInstall) = 2
    /\ successCount = 1
    /\ FailedPkgs = <<packagesToInstall[2]>>
    /\ report.commands = <<InstallCmd("single", <<packagesToInstall[2]>>)>>

(***************************************************************************)
(* Termination of a run, and how many install commands it executes.        *)
(***************************************************************************)
\* steps a call of runWithRetry can still take: an execution of the command
\* and what follows it for each attempt left but the last, one for the last
RwStepsLeft ==
    IF rw.pc = "try" THEN 2 * (rw.retries - rw.i) + 1
    ELSE IF rw.pc = "caught" THEN 2 * (rw.retries - rw.i)
    ELSE 0

\* steps of one individual install: the call, at most 5 steps of runWithRetry
\* with 2 retries, the return; and one spare
StepsPerTool == 9

\* more than any stage of a run takes
StageSize == 10 * (Len(Keys) + 1)

\* stages of a run counted from its end
StagesLeft ==
    CASE pc = "main" -> 8
      [] pc \in {"classify", "check"} -> 7
      [] pc = "awaiting" -> 6
      [] pc = "plan" -> 5
      [] pc = "install" -> 4
      [] pc = "bulk" -> 3
      [] pc \in {"loop", "installing"} -> 2
      [] pc = "done" -> 1
      [] pc = "exited" -> 0

\* steps left in the stage the run is in
StepsLeftInStage ==
    CASE pc = "classify" -> Len(packageList) - idx + 1
      [] pc = "check" -> Len(Keys) - idx + 1
      [] pc = "bulk" -> RwStepsLeft
      [] pc = "loop" -> StepsPerTool * (Len(packagesToInstall) - idx + 1) + 1
      [] pc = "installing" ->
             StepsPerTool * (Len(packagesToInstall) - idx) + RwStepsLeft + 2
      [] OTHER -> 0

\* a bound on the number of steps a run has left
StepsLeft == StageSize * StagesLeft + StepsLeftInStage

\* the program, not the operator, can take a step
ProgramCanStep ==
    \/ ENABLED (MainAll \/ MainCheck \/ MainTool \/ MainUsage)
    \/ ENABLED (CheckTool \/ CheckDone \/ Classify \/ ShowSummary \/ Plan)
    \/ ENABLED (InstallStart \/ BulkReturn \/ LoopCall \/ LoopReturn \/ Summary)
    \/ ENABLED runWithRetry
    \/ ENABLED Exit

\* C26: every step of a run lowers a bound on the steps left, and until the run
\* has exited the program can take a step unless it waits for the operator's
\* answer, so a run terminates once the answer is received, or without waiting
\* when there is no prompt; the bulk command is one call of runWithRetry with 1
\* retry, executed at most 2 times, each tool of the plan has at most one call
\* with 2 retries, executed at most 3 times, so a plan of n tools has at most
\* 2 + 3n executions; runWithRetry always returns true or false to its caller
\* and the process never exits while a call is under way.
C26_TerminatesWithinBound ==
    /\ [](/\ StepsLeft >= 0
          /\ StepsLeftInStage < StageSize
          /\ pc = "exited" <=> StepsLeft = 0
          /\ pc \notin {"exited", "awaiting"} => ProgramCanStep
          /\ pc = "awaiting" => ENABLED Answer
          /\ pc = "bulk" =>
                /\ rw.cmd = InstallCmd("bulk", packagesToInstall)
                /\ rw.retries = 1
                /\ rw.execs <= 2
                /\ attempted = <<>>
          /\ pc = "installing" =>
                /\ rw.cmd = InstallCmd("single", <<packagesToInstall[idx]>>)
                /\ rw.retries = 2
                /\ rw.execs <= 3
          /\ Len(attempted) <= Len(packagesToInstall)
          /\ \A p \in Range(attempted) : Count(attempted, p) = 1
          /\ rw.pc # "idle" =>
                /\ pc \in {"bulk", "installing"}
                /\ exitCode = -1
          /\ rw.pc = "ret" =>
                /\ rw.result \in BOOLEAN
                /\ ENABLED (BulkReturn \/ LoopReturn))
    /\ [][StepsLeft' < StepsLeft]_vars
    /\ [][(rw.pc = "idle" /\ rw'.pc # "idle" /\ rw'.cmd.kind = "bulk") =>
             (bulk = "none" /\ bulk' = "running")]_vars

\* the bulk command was executed twice and failed, and the last tool of a plan
\* of two is at its third execution, the first tool having failed
C26_Witness ==
    /\ pc = "installing"
    /\ bulk = "failed"
    /\ Len(packagesToInstall) = 2
    /\ idx = 2
    /\ Len(failedPackages) = 1
    /\ rw.execs = 3

(***************************************************************************)
(* The hint printed with the failed tools.                                 *)
(***************************************************************************)
\* C27: the summary prints the cache troubleshooting steps only when a failed
\* individual install ended with a cache error, and the plain hint when every
\* failure ended otherwise: the hint follows the flag cacheErrorsFound, and the
\* flag is raised only when runWithRetry returns false to the loop with its
\* last error classified as cache.
C27_TroubleshootingOnlyForCacheErrors ==
    /\ [](report.kind = "summary" =>
             /\ report.hint = "troubleshooting" <=>
                   (failedPackages # <<>> /\ cacheErrorsFound)
             /\ report.hint = "try manually" <=>
                   (failedPackages # <<>> /\ ~cacheErrorsFound))
    /\ [][(~cacheErrorsFound /\ cacheErrorsFound') =>
             (ReturnedToLoop /\ ~rw.result /\ rw.errorType = "cache")]_vars

====
